---- MODULE Spec2Model ----
(***************************************************************************)
(* Model of the texture packer (src/main.py): the binary split tree of    *)
(* Packer, the multi-container orchestration of pack_texture_blocks, and  *)
(* the append workflow of main (persisted state, skip-list, metadata).    *)
(*                                                                         *)
(* Conventions                                                             *)
(*  - A Packer's tree is an arena: a sequence of PackedNode records whose *)
(*    left/right fields are indices into the sequence, 0 standing for     *)
(*    None; the root is index 1.                                          *)
(*  - A PIL image is the square canvas size plus the sequence of pastes   *)
(*    it received (payload, origin, payload size), later ones on top.     *)
(*  - A dict of sub-textures is a sequence of [x, y] records (the code    *)
(*    only ever touches "x" and "y").                                     *)
(*  - Container indices are 0-based as in the code; sequences are 1-based,*)
(*    so the container with index k is element k + 1.                     *)
(***************************************************************************)
EXTENDS Integers, Sequences, FiniteSets, TLC

VARIABLES
    pc,                                 \* position in main / pack_texture_blocks
    texture_blocks,                     \* the list of Blocks handed to pack_texture_blocks
    container_size,                     \* container_size / args.packed_texture_size
    currently_created_packed_textures,  \* local list of pack_texture_blocks
    packed_texture_indices,             \* local list of pack_texture_blocks
    pos,                                \* index of the Block the for loop of line 101 is at
    args,                               \* parsed command line of the current run of main
    main_packed_textures,               \* main's currently_created_packed_textures
    main_packed_texture_indices,        \* main's packed_texture_indices
    currently_packed_texture_paths,     \* main's in-memory skip set
    packed_state_pkl,                   \* file output_dir/packed_state.pkl
    paths_txt,                          \* file output_dir/currently_packed_texture_paths.txt
    packed_texture_json,                \* file output_dir/packed_texture.json
    png_files,                          \* files output_dir/packed_texture_<index>.png
    runs,                               \* number of runs of main started so far
    source_files                        \* the image files on disk: path -> size

vars == <<pc, texture_blocks, container_size, currently_created_packed_textures,
          packed_texture_indices, pos, args, main_packed_textures,
          main_packed_texture_indices, currently_packed_texture_paths,
          packed_state_pkl, paths_txt, packed_texture_json, png_files, runs,
          source_files>>

packVars == <<texture_blocks, container_size, currently_created_packed_textures,
              packed_texture_indices, pos>>

mainVars == <<args, main_packed_textures, main_packed_texture_indices,
              currently_packed_texture_paths, packed_state_pkl, paths_txt,
              packed_texture_json, png_files, runs, source_files>>

\* ---------------------------------------------------------------- bounds
MaxBlocks == 3
MaxRuns == 2
MaxPaths == 2

\* ---------------------------------------------------------------- helpers
None == 0

Min(a, b) == IF a <= b THEN a ELSE b

Last(s) == s[Len(s)]

\* ---------------------------------------------------------------- Packer
PackedNode(x, y, w, h) ==
    [x |-> x, y |-> y, w |-> w, h |-> h, used |-> FALSE, left |-> None, right |-> None]

Packer(width, height) == <<PackedNode(0, 0, width, height)>>

\* Fits with strict comparisons: a request the size of the node is turned away
FitsStrict(node, width, height) == width < node.w /\ height < node.h

\* line 61: the test an unused node must pass
Fits(node, width, height) == width <= node.w /\ height <= node.h

RECURSIVE find_node(_, _, _, _)
find_node(nodes, root, width, height) ==
    IF root = None THEN None
    ELSE IF nodes[root].used THEN
        LET r == find_node(nodes, nodes[root].right, width, height)
        IN  IF r # None THEN r ELSE find_node(nodes, nodes[root].left, width, height)
    ELSE IF Fits(nodes[root], width, height) THEN root
    ELSE None

\* SplitRight keeping the node's whole width
SplitRightFullWidth(node, width, height) ==
    PackedNode(node.x + width, node.y, node.w, height)

\* line 68: the right child, beside the placed rectangle
SplitRight(node, width, height) ==
    PackedNode(node.x + width, node.y, node.w - width, height)

\* SplitLeft only as wide as the request
SplitLeftNarrow(node, width, height) ==
    PackedNode(node.x, node.y + height, width, node.h - height)

\* line 69: the down child, below the placed rectangle and the right child
SplitLeft(node, width, height) ==
    PackedNode(node.x, node.y + height, node.w, node.h - height)

split_node(nodes, n, width, height) ==
    LET k == Len(nodes)
        marked == [nodes EXCEPT ![n].used = TRUE, ![n].right = k + 1, ![n].left = k + 2]
    IN  marked \o <<SplitRight(nodes[n], width, height), SplitLeft(nodes[n], width, height)>>

\* Packer.fit on a one-element list: the tree afterwards and block.packed_placement
fit(nodes, width, height) ==
    LET node == find_node(nodes, 1, width, height)
    IN  IF node # None
        THEN [nodes |-> split_node(nodes, node, width, height), packed_placement |-> node]
        ELSE [nodes |-> nodes, packed_placement |-> None]

\* ---------------------------------------------------------------- Block, images, records
UNSET == [kind |-> "unset"]

NoPlacement == [kind |-> "None"]

Placement(node) == [kind |-> "node", x |-> node.x, y |-> node.y]

Block(w, h, filename, subtextures) ==
    [w |-> w, h |-> h, filename |-> filename, subtextures |-> subtextures,
     packed_placement |-> UNSET]

NewImage(size) == [size |-> size, pastes |-> <<>>]

Paste(image, block, x, y) ==
    [image EXCEPT !.pastes =
        Append(@, [src |-> block.filename, x |-> x, y |-> y, w |-> block.w, h |-> block.h])]

PackedTexture(packer, image) == [packer |-> packer, image |-> image]

PackedTextureIndex(packed_index, x, y, subtextures) ==
    [packed_index |-> packed_index, top_left_corner_x |-> x, top_left_corner_y |-> y,
     packed_subtextures |-> subtextures]

\* AdjustSubtextures moving x only
AdjustSubtexturesXOnly(subtextures, x, y) ==
    [k \in DOMAIN subtextures |-> [subtextures[k] EXCEPT !.x = @ + x]]

\* lines 115-118: every sub-texture's x and y moved by the placement origin
AdjustSubtextures(subtextures, x, y) ==
    [k \in DOMAIN subtextures |->
        [subtextures[k] EXCEPT !.x = @ + x, !.y = @ + y]]

\* line 120: the container index recorded for a Block placed in an existing container
ExistingPackedIndex(containers) == Len(containers) - 1

\* line 135: the container index recorded for a Block placed in a new container
NewPackedIndex(containers) == Len(containers)

\* ---------------------------------------------------------------- sort (line 96)
SortKey(block) == Min(block.w, block.h)

\* position at which b goes into the sorted sequence s: after every element whose
\* key is at least its own (list.sort(reverse=True) is stable)
RECURSIVE InsertSorted(_, _)
InsertSorted(s, b) ==
    IF s = <<>> THEN <<b>>
    ELSE IF SortKey(Head(s)) >= SortKey(b) THEN <<Head(s)>> \o InsertSorted(Tail(s), b)
    ELSE <<b>> \o s

RECURSIVE SortBlocks(_)
SortBlocks(s) ==
    IF s = <<>> THEN <<>>
    ELSE InsertSorted(SortBlocks(SubSeq(s, 1, Len(s) - 1)), Last(s))

\* ---------------------------------------------------------------- pack_texture_blocks
\* the first existing container (1-based position) whose tree accepts the Block, or None
FirstAccepting(containers, block) ==
    LET ok == {i \in 1..Len(containers) :
                  find_node(containers[i].packer, 1, block.w, block.h) # None}
    IN  IF ok = {} THEN None ELSE CHOOSE i \in ok : \A j \in ok : i <= j

\* lines 96-99
PackStart ==
    /\ pc = "pack"
    /\ texture_blocks' = SortBlocks(texture_blocks)
    /\ currently_created_packed_textures' = <<>>
    /\ packed_texture_indices' = <<>>
    /\ pos' = 1
    /\ pc' = "loop"
    /\ UNCHANGED <<container_size, mainVars>>

\* lines 101-123: one iteration of the for loop, the Block going into an existing container
PlaceInExisting ==
    /\ pc = "loop"
    /\ pos <= Len(texture_blocks)
    /\ \E i \in {FirstAccepting(currently_created_packed_textures, texture_blocks[pos])} \ {None} :
        \E res \in {fit(currently_created_packed_textures[i].packer,
                        texture_blocks[pos].w, texture_blocks[pos].h)} :
            \E node \in {res.nodes[res.packed_placement]} :
                \E subs \in {AdjustSubtextures(texture_blocks[pos].subtextures, node.x, node.y)} :
                    /\ currently_created_packed_textures' =
                          [currently_created_packed_textures EXCEPT
                              ![i] = PackedTexture(res.nodes,
                                         Paste(@.image, texture_blocks[pos], node.x, node.y))]
                    /\ texture_blocks' =
                          [texture_blocks EXCEPT ![pos].packed_placement = Placement(node),
                                                 ![pos].subtextures = subs]
                    /\ packed_texture_indices' =
                          Append(packed_texture_indices,
                                 PackedTextureIndex(
                                     ExistingPackedIndex(currently_created_packed_textures),
                                     node.x, node.y, subs))
    /\ pos' = pos + 1
    /\ UNCHANGED <<pc, container_size, mainVars>>

\* lines 101-109, 125-139: one iteration of the for loop, no existing container accepting
PlaceInNew ==
    /\ pc = "loop"
    /\ pos <= Len(texture_blocks)
    /\ FirstAccepting(currently_created_packed_textures, texture_blocks[pos]) = None
    /\ \E res \in {fit(Packer(container_size, container_size),
                       texture_blocks[pos].w, texture_blocks[pos].h)} :
        IF res.packed_placement # None
        THEN \E node \in {res.nodes[res.packed_placement]} :
                /\ texture_blocks' =
                      [texture_blocks EXCEPT ![pos].packed_placement = Placement(node)]
                /\ packed_texture_indices' =
                      Append(packed_texture_indices,
                             PackedTextureIndex(
                                 NewPackedIndex(currently_created_packed_textures),
                                 node.x, node.y, texture_blocks[pos].subtextures))
                /\ currently_created_packed_textures' =
                      Append(currently_created_packed_textures,
                             PackedTexture(res.nodes,
                                 Paste(NewImage(container_size), texture_blocks[pos],
                                       node.x, node.y)))
        ELSE /\ texture_blocks' =
                      [texture_blocks EXCEPT ![pos].packed_placement = NoPlacement]
             /\ packed_texture_indices' = packed_texture_indices
             /\ currently_created_packed_textures' =
                      Append(currently_created_packed_textures,
                             PackedTexture(res.nodes, NewImage(container_size)))
    /\ pos' = pos + 1
    /\ UNCHANGED <<pc, container_size, mainVars>>

\* line 141
PackReturn ==
    /\ pc = "loop"
    /\ pos > Len(texture_blocks)
    /\ pc' = "returned"
    /\ UNCHANGED <<packVars, mainVars>>

\* ---------------------------------------------------------------- inputs
\* container edge lengths tried (--packed_texture_size)
ContainerSizes == {4, 512}

\* Block sizes relative to the container edge: full, half, quarter, and oversized in
\* width or in height
Shapes(S) ==
    { <<S, S>>, <<S \div 2, S \div 2>>, <<S \div 2, S>>, <<S, S \div 2>>,
      <<S \div 4, S \div 4>>, <<2 * S, S>>, <<2 * S, S \div 4>>, <<S \div 2, 2 * S>> }

\* a Block's sub-texture dict: empty, or one region at local (1, 2)
SubtextureChoices == { <<>>, <<[x |-> 1, y |-> 2]>> }

TextureNames == <<"t1.png", "t2.png", "t3.png", "t4.png", "t5.png", "t6.png">>

NoArgs == [append |-> FALSE, mode |-> "none", paths |-> <<>>]

NoFile == [exists |-> FALSE]

MainIdle ==
    /\ args = NoArgs
    /\ main_packed_textures = <<>>
    /\ main_packed_texture_indices = <<>>
    /\ currently_packed_texture_paths = {}
    /\ packed_state_pkl = NoFile
    /\ paths_txt = NoFile
    /\ packed_texture_json = NoFile
    /\ png_files = <<>>
    /\ runs = 0
    /\ source_files = <<>>

\* pack_texture_blocks called on any list of at most MaxBlocks Blocks
Init ==
    /\ pc = "pack"
    /\ container_size \in ContainerSizes
    /\ \E n \in 0..MaxBlocks :
        \E f \in [1..n -> Shapes(container_size) \X SubtextureChoices] :
            texture_blocks =
                [i \in 1..n |-> Block(f[i][1][1], f[i][1][2], TextureNames[i], f[i][2])]
    /\ currently_created_packed_textures = <<>>
    /\ packed_texture_indices = <<>>
    /\ pos = 0
    /\ MainIdle

Next ==
    \/ PackStart
    \/ PlaceInExisting
    \/ PlaceInNew
    \/ PackReturn

Spec == Init /\ [][Next]_vars

\* ---------------------------------------------------------------- main
\* the image files of the textures directory, in os.walk order; the output
\* directory lies outside it
SourcePaths == <<"a.png", "b.png", "c.png">>

\* sizes an image file may have: powers of two, one oversized, one not a power of two
FileSizes == { <<2, 2>>, <<2, 4>>, <<8, 4>>, <<3, 4>> }

\* --packed_texture_size values tried by the runs of main
PackedTextureSizes == {4}

\* the sidecar JSON next to an image: only a.png has one, with one sub-texture
SidecarSubtextures(path) == IF path = "a.png" THEN <<[x |-> 1, y |-> 2]>> ELSE <<>>

\* the & of two non-negative integers, bit by bit
RECURSIVE BitAnd(_, _)
BitAnd(a, b) ==
    IF a = 0 \/ b = 0 THEN 0
    ELSE (a % 2) * (b % 2) + 2 * BitAnd(a \div 2, b \div 2)

\* lines 209-210
is_power_of_two(n) == n > 0 /\ BitAnd(n, n - 1) = 0

RECURSIVE SelectSeq2(_, _)
SelectSeq2(s, keep) ==
    IF s = <<>> THEN <<>>
    ELSE IF Head(s) \in keep THEN <<Head(s)>> \o SelectSeq2(Tail(s), keep)
    ELSE SelectSeq2(Tail(s), keep)

\* lines 181-207: the Blocks of the files with power-of-two sizes, in list order
collect_textures_data(image_file_paths) ==
    LET valid == {p \in DOMAIN source_files :
                     /\ is_power_of_two(source_files[p][1])
                     /\ is_power_of_two(source_files[p][2])}
        kept == SelectSeq2(image_file_paths, valid)
    IN  [i \in 1..Len(kept) |->
            Block(source_files[kept[i]][1], source_files[kept[i]][2], kept[i],
                  SidecarSubtextures(kept[i]))]

\* lines 160-177: the files of the directory that are not in the skip set
DirImageFilePaths(skip) ==
    SelectSeq2(SourcePaths, {SourcePaths[i] : i \in 1..Len(SourcePaths)} \ skip)

Filenames(blocks) == {blocks[i].filename : i \in 1..Len(blocks)}

\* lines 22-29: a fresh Packer of the saved root's size around the saved image
load_packed_state(file) ==
    [packed_textures |->
        [i \in 1..Len(file.packed_textures) |->
            PackedTexture(Packer(file.packed_textures[i].root[1].w,
                                 file.packed_textures[i].root[1].h),
                          file.packed_textures[i].image)],
     packed_texture_indices |-> file.packed_texture_indices]

\* lines 13-20
save_packed_state(packed_textures, indices) ==
    [exists |-> TRUE,
     packed_textures |->
        [i \in 1..Len(packed_textures) |->
            [root |-> packed_textures[i].packer, image |-> packed_textures[i].image]],
     packed_texture_indices |-> indices]

\* lines 279-290: zip(texture_blocks, new_packed_texture_indices) into a dict keyed
\* by filename, a later pair replacing an earlier one with the same key
MetadataDocument(blocks, indices) ==
    LET n == Min(Len(blocks), Len(indices))
        lastOf(f) == CHOOSE k \in 1..n :
                        /\ blocks[k].filename = f
                        /\ \A j \in 1..n : blocks[j].filename = f => j <= k
    IN  [exists |-> TRUE,
         sub_textures |->
            [f \in {blocks[k].filename : k \in 1..n} |->
                [container_index |-> indices[lastOf(f)].packed_index,
                 x |-> indices[lastOf(f)].top_left_corner_x,
                 y |-> indices[lastOf(f)].top_left_corner_y,
                 width |-> blocks[lastOf(f)].w,
                 height |-> blocks[lastOf(f)].h,
                 sub_textures |-> indices[lastOf(f)].packed_subtextures]]]

\* lines 297-300: packed_texture_<index>.png written for every container; files of
\* higher index left by earlier runs stay
SavePngFiles(old, packed_textures) ==
    [i \in 1..(IF Len(old) > Len(packed_textures) THEN Len(old) ELSE Len(packed_textures)) |->
        IF i <= Len(packed_textures) THEN packed_textures[i].image ELSE old[i]]

\* lines 213-250: a run of main starts: arguments, saved state, skip-list
MainStart ==
    /\ pc = "idle"
    /\ runs < MaxRuns
    /\ runs' = runs + 1
    /\ \E append \in BOOLEAN, mode \in {"dir", "file", "missing_file"} :
        \E paths \in UNION {[1..n -> DOMAIN source_files] : n \in 1..MaxPaths} :
            /\ mode # "file" => paths = <<SourcePaths[1]>>
            /\ args' = [append |-> append, mode |-> mode,
                        paths |-> IF mode = "file" THEN paths ELSE <<>>]
    /\ container_size' \in PackedTextureSizes
    /\ IF args'.append /\ packed_state_pkl.exists
       THEN /\ main_packed_textures' = load_packed_state(packed_state_pkl).packed_textures
            /\ main_packed_texture_indices' =
                   load_packed_state(packed_state_pkl).packed_texture_indices
       ELSE /\ main_packed_textures' = <<>>
            /\ main_packed_texture_indices' = <<>>
    /\ currently_packed_texture_paths' =
           IF args'.append /\ paths_txt.exists THEN paths_txt.lines ELSE {}
    /\ texture_blocks' = <<>>
    /\ currently_created_packed_textures' = <<>>
    /\ packed_texture_indices' = <<>>
    /\ pos' = 0
    /\ pc' = "collect"
    /\ UNCHANGED <<packed_state_pkl, paths_txt, packed_texture_json, png_files, source_files>>

\* lines 252-254: --textures_directory
MainCollectDir ==
    /\ pc = "collect"
    /\ args.mode = "dir"
    /\ texture_blocks' =
           collect_textures_data(DirImageFilePaths(currently_packed_texture_paths))
    /\ currently_packed_texture_paths' =
           currently_packed_texture_paths \cup Filenames(texture_blocks')
    /\ pc' = "collected"
    /\ UNCHANGED <<container_size, currently_created_packed_textures, packed_texture_indices,
                   pos, args, main_packed_textures, main_packed_texture_indices,
                   packed_state_pkl, paths_txt, packed_texture_json, png_files, runs,
                   source_files>>

\* lines 255-260: --texture_paths_file
MainCollectFile ==
    /\ pc = "collect"
    /\ args.mode = "file"
    /\ texture_blocks' = collect_textures_data(args.paths)
    /\ currently_packed_texture_paths' =
           currently_packed_texture_paths \cup Filenames(texture_blocks')
    /\ pc' = "collected"
    /\ UNCHANGED <<container_size, currently_created_packed_textures, packed_texture_indices,
                   pos, args, main_packed_textures, main_packed_texture_indices,
                   packed_state_pkl, paths_txt, packed_texture_json, png_files, runs,
                   source_files>>

\* lines 261-263: the paths file does not exist, main returns
MainPathsFileMissing ==
    /\ pc = "collect"
    /\ args.mode = "missing_file"
    /\ pc' = "idle"
    /\ UNCHANGED <<packVars, mainVars>>

\* lines 265-269: the skip-list is written back before packing
MainWritePaths ==
    /\ pc = "collected"
    /\ paths_txt' = [exists |-> TRUE, lines |-> currently_packed_texture_paths]
    /\ pc' = "pack"
    /\ UNCHANGED <<packVars, args, main_packed_textures, main_packed_texture_indices,
                   currently_packed_texture_paths, packed_state_pkl, packed_texture_json,
                   png_files, runs, source_files>>

\* lines 274-300: the new containers and records join the loaded ones; state,
\* metadata document and container images are written
MainFinish ==
    /\ pc = "returned"
    /\ args.mode # "none"
    /\ main_packed_textures' = main_packed_textures \o currently_created_packed_textures
    /\ main_packed_texture_indices' = main_packed_texture_indices \o packed_texture_indices
    /\ packed_state_pkl' =
           save_packed_state(main_packed_textures', main_packed_texture_indices')
    /\ packed_texture_json' = MetadataDocument(texture_blocks, packed_texture_indices)
    /\ png_files' = SavePngFiles(png_files, main_packed_textures')
    /\ pc' = "idle"
    /\ UNCHANGED <<packVars, args, currently_packed_texture_paths, paths_txt, runs,
                   source_files>>

\* a directory of image files of any of the sizes, nothing written yet
InitMain ==
    /\ pc = "idle"
    /\ source_files \in
           [{SourcePaths[i] : i \in 1..Len(SourcePaths)} -> FileSizes]
    /\ container_size \in PackedTextureSizes
    /\ texture_blocks = <<>>
    /\ currently_created_packed_textures = <<>>
    /\ packed_texture_indices = <<>>
    /\ pos = 0
    /\ args = NoArgs
    /\ main_packed_textures = <<>>
    /\ main_packed_texture_indices = <<>>
    /\ currently_packed_texture_paths = {}
    /\ packed_state_pkl = NoFile
    /\ paths_txt = NoFile
    /\ packed_texture_json = NoFile
    /\ png_files = <<>>
    /\ runs = 0

NextMain ==
    \/ MainStart
    \/ MainCollectDir
    \/ MainCollectFile
    \/ MainPathsFileMissing
    \/ MainWritePaths
    \/ PackStart
    \/ PlaceInExisting
    \/ PlaceInNew
    \/ PackReturn
    \/ MainFinish

SpecMain == InitMain /\ [][NextMain]_vars

\* ================================================================ properties
Rect(x, y, w, h) == [x |-> x, y |-> y, w |-> w, h |-> h]

Intersect(a, b) ==
    /\ a.x < b.x + b.w
    /\ b.x < a.x + a.w
    /\ a.y < b.y + b.h
    /\ b.y < a.y + a.h

Inside(a, b) ==
    /\ b.x <= a.x
    /\ a.x + a.w <= b.x + b.w
    /\ b.y <= a.y
    /\ a.y + a.h <= b.y + b.h

Area(a) == a.w * a.h

NodeRect(n) == Rect(n.x, n.y, n.w, n.h)

Oversized(block) == block.w > container_size \/ block.h > container_size

IsPlaced(block) == block.packed_placement.kind = "node"

\* the Blocks the loop has been through
Processed == IF pc \in {"loop", "returned", "idle"} THEN 1..(pos - 1) ELSE {}

PlacedBlocks == {i \in Processed : IsPlaced(texture_blocks[i])}

\* records are appended in processing order: the record of a placed Block is at the
\* position that counts the placed Blocks up to it
RecordPos(i) == Cardinality({j \in PlacedBlocks : j <= i})

RecordOf(i) == packed_texture_indices[RecordPos(i)]

RecordRect(i) ==
    Rect(RecordOf(i).top_left_corner_x, RecordOf(i).top_left_corner_y,
         texture_blocks[i].w, texture_blocks[i].h)

InIteration == pc = "loop" /\ pos <= Len(texture_blocks)

\* C1: no two Placement Index records with the same container index have
\* intersecting rectangles (origin extended by the Block's width and height).
C1_NoOverlap ==
    \A i, j \in PlacedBlocks :
        (i < j /\ RecordOf(i).packed_index = RecordOf(j).packed_index)
            => ~Intersect(RecordRect(i), RecordRect(j))

\* C2: a Block is placed in the first existing container, in creation order, whose
\* tree accepts it, and the record appended for it carries the index of exactly
\* that container (whose tree was split and whose canvas received the pixels).
C2_FirstFitIndex ==
    [][(InIteration /\ Len(currently_created_packed_textures') =
                            Len(currently_created_packed_textures)) =>
        LET block == texture_blocks[pos]
            changed == {k \in 1..Len(currently_created_packed_textures) :
                          currently_created_packed_textures'[k] #
                              currently_created_packed_textures[k]}
            rec == Last(packed_texture_indices')
        IN  /\ Len(packed_texture_indices') = Len(packed_texture_indices) + 1
            /\ \E i \in changed :
                /\ changed = {i}
                /\ \A j \in 1..(i - 1) :
                    find_node(currently_created_packed_textures[j].packer, 1,
                              block.w, block.h) = None
                /\ Last(currently_created_packed_textures'[i].image.pastes) =
                       [src |-> block.filename, x |-> rec.top_left_corner_x,
                        y |-> rec.top_left_corner_y, w |-> block.w, h |-> block.h]
                /\ rec.packed_index = i - 1
      ]_vars

\* C3: an oversized Block (width or height above the container size) never gets a
\* record, the loop never stops short of the end, and every other Block gets
\* exactly one record (its own placement).
C3_DropCorrectness ==
    /\ pc = "loop" => ENABLED (PlaceInExisting \/ PlaceInNew \/ PackReturn)
    /\ pc = "returned" => pos = Len(texture_blocks) + 1
    /\ \A i \in Processed :
        IF Oversized(texture_blocks[i])
        THEN texture_blocks[i].packed_placement = NoPlacement
        ELSE /\ IsPlaced(texture_blocks[i])
             /\ RecordPos(i) \in 1..Len(packed_texture_indices)
             /\ RecordOf(i).top_left_corner_x = texture_blocks[i].packed_placement.x
             /\ RecordOf(i).top_left_corner_y = texture_blocks[i].packed_placement.y
    /\ pc \in {"loop", "returned"} =>
        Len(packed_texture_indices) =
            Cardinality({i \in Processed : ~Oversized(texture_blocks[i])})

C3_Witness ==
    /\ pc = "returned"
    /\ \E i, j, k \in Processed :
        /\ i < j /\ j < k
        /\ ~Oversized(texture_blocks[i])
        /\ Oversized(texture_blocks[j])
        /\ ~Oversized(texture_blocks[k])
        /\ IsPlaced(texture_blocks[k])

\* the Blocks as (identifier, nested regions) pairs, whatever their order
NestedRegions(blocks) ==
    {<<blocks[i].filename, blocks[i].subtextures>> : i \in 1..Len(blocks)}

\* C4: a placed Block's nested-region x and y become their values before the call
\* plus the placement origin, added once, in an existing or in a new container, and
\* the record carries them; a Block that is not placed keeps them; no other step
\* and no other Block's iteration touches them.
C4_TranslateOnce ==
    [][IF InIteration
       THEN LET before == texture_blocks[pos]
                after == texture_blocks'[pos]
            IN  /\ \A j \in 1..Len(texture_blocks) :
                    j # pos => texture_blocks'[j] = texture_blocks[j]
                /\ DOMAIN after.subtextures = DOMAIN before.subtextures
                /\ IF IsPlaced(after)
                   THEN /\ \A k \in DOMAIN before.subtextures :
                            /\ after.subtextures[k].x =
                                   before.subtextures[k].x + after.packed_placement.x
                            /\ after.subtextures[k].y =
                                   before.subtextures[k].y + after.packed_placement.y
                        /\ Last(packed_texture_indices').packed_subtextures =
                               after.subtextures
                   ELSE after.subtextures = before.subtextures
       ELSE NestedRegions(texture_blocks') = NestedRegions(texture_blocks)
      ]_vars

\* a Block with a nested region placed away from the origin, and one placed in a
\* new container
C4_Witness ==
    /\ pc = "returned"
    /\ \E i, j \in PlacedBlocks :
        /\ texture_blocks[i].packed_placement.x > 0
        /\ texture_blocks[i].packed_placement.y > 0
        /\ texture_blocks[i].subtextures = <<[x |-> 1 + texture_blocks[i].packed_placement.x,
                                               y |-> 2 + texture_blocks[i].packed_placement.y]>>
        /\ texture_blocks[j].packed_placement.x = 0
        /\ texture_blocks[j].packed_placement.y = 0
        /\ texture_blocks[j].subtextures = <<[x |-> 1, y |-> 2]>>

\* Scenario A: S = 512 and Blocks 512x512, 512x512, 256x256 on fresh state
ScenarioA ==
    /\ container_size = 512
    /\ Len(texture_blocks) = 3
    /\ <<texture_blocks[1].w, texture_blocks[1].h>> = <<512, 512>>
    /\ <<texture_blocks[2].w, texture_blocks[2].h>> = <<512, 512>>
    /\ <<texture_blocks[3].w, texture_blocks[3].h>> = <<256, 256>>

FirstTwoOfScenarioA ==
    /\ packed_texture_indices[1].packed_index = 0
    /\ packed_texture_indices[1].top_left_corner_x = 0
    /\ packed_texture_indices[1].top_left_corner_y = 0
    /\ packed_texture_indices[2].packed_index = 1
    /\ packed_texture_indices[2].top_left_corner_x = 0
    /\ packed_texture_indices[2].top_left_corner_y = 0

\* C6 as stated: in Scenario A the third Block goes into an existing container and
\* the result is 3 records and 2 containers.
C6_ScenarioA_AsStated ==
    (pc = "returned" /\ ScenarioA) =>
        /\ Len(packed_texture_indices) = 3
        /\ FirstTwoOfScenarioA
        /\ packed_texture_indices[3].packed_index \in {0, 1}
        /\ Len(currently_created_packed_textures) = 2

\* C6 amended: in Scenario A the first Block is in container 0 at (0,0), the second
\* in container 1 at (0,0); both containers are then full, so the third Block is
\* placed in a new container 2 at (0,0): 3 records and 3 containers.
C6_ScenarioA ==
    (pc = "returned" /\ ScenarioA) =>
        /\ Len(packed_texture_indices) = 3
        /\ FirstTwoOfScenarioA
        /\ packed_texture_indices[3].packed_index = 2
        /\ packed_texture_indices[3].top_left_corner_x = 0
        /\ packed_texture_indices[3].top_left_corner_y = 0
        /\ Len(currently_created_packed_textures) = 3
        /\ Len(currently_created_packed_textures[3].image.pastes) = 1

C6_Witness == pc = "returned" /\ ScenarioA /\ Len(packed_texture_indices) = 3

\* a, b and c are pairwise disjoint and together cover exactly whole
Tiles(a, b, c, whole) ==
    /\ \A r \in {a, b, c} : r.w >= 0 /\ r.h >= 0 /\ Inside(r, whole)
    /\ ~Intersect(a, b)
    /\ ~Intersect(a, c)
    /\ ~Intersect(b, c)
    /\ Area(a) + Area(b) + Area(c) = Area(whole)

\* node p of a tree was split for a request (w, h)
SplitFor(nodes, p, w, h) ==
    /\ nodes[p].right \in 1..Len(nodes)
    /\ nodes[p].left \in 1..Len(nodes)
    /\ nodes[p].right # nodes[p].left
    /\ LET right == nodes[nodes[p].right]
           down == nodes[nodes[p].left]
       IN  /\ NodeRect(right) = Rect(nodes[p].x + w, nodes[p].y, nodes[p].w - w, h)
           /\ NodeRect(down) = Rect(nodes[p].x, nodes[p].y + h, nodes[p].w, nodes[p].h - h)
           /\ Tiles(Rect(nodes[p].x, nodes[p].y, w, h), NodeRect(right), NodeRect(down),
                    NodeRect(nodes[p]))

\* every used node of a tree is split for the request its children's origins show,
\* a request that fits it; an unused node has no children
TreeTiled(nodes) ==
    \A p \in 1..Len(nodes) :
        IF nodes[p].used
        THEN /\ nodes[p].right \in 1..Len(nodes)
             /\ nodes[p].left \in 1..Len(nodes)
             /\ LET w == nodes[nodes[p].right].x - nodes[p].x
                    h == nodes[nodes[p].left].y - nodes[p].y
                IN  /\ w \in 1..nodes[p].w
                    /\ h \in 1..nodes[p].h
                    /\ SplitFor(nodes, p, w, h)
        ELSE nodes[p].left = None /\ nodes[p].right = None

\* C9: a node split for a request (w, h) gets the right child (x+w, y, W-w, h) and
\* the down child (x, y+h, W, H-h); placed rectangle, right child and down child
\* are pairwise disjoint and cover exactly the node; a used node is never unmarked
\* and its children are never replaced.
C9_SplitTiling ==
    [][pc = "loop" =>
        /\ Len(currently_created_packed_textures') >= Len(currently_created_packed_textures)
        /\ \A k \in 1..Len(currently_created_packed_textures') :
            LET new == currently_created_packed_textures'[k].packer
                old == IF k <= Len(currently_created_packed_textures)
                       THEN currently_created_packed_textures[k].packer
                       ELSE <<>>
            IN  /\ TreeTiled(new)
                /\ Len(new) >= Len(old)
                /\ \A p \in 1..Len(new) :
                    IF p <= Len(old) /\ old[p].used
                    THEN new[p] = old[p]
                    ELSE /\ p <= Len(old) => NodeRect(new[p]) = NodeRect(old[p])
                         /\ new[p].used =>
                                SplitFor(new, p, texture_blocks[pos].w, texture_blocks[pos].h)
      ]_vars

\* a tree two splits deep on both sides
C9_Witness ==
    \E k \in 1..Len(currently_created_packed_textures) :
        LET nodes == currently_created_packed_textures[k].packer
        IN  \E p \in 1..Len(nodes) :
                /\ nodes[p].used
                /\ nodes[nodes[p].right].used
                /\ nodes[nodes[p].left].used

\* C10: every container holds at least one placed Block (its root is used and a
\* record refers to it), a Block that cannot be placed leaves the list of
\* containers unchanged, and there are never more containers than records.
C10_NoEmptyContainer ==
    /\ \A k \in 1..Len(currently_created_packed_textures) :
        /\ currently_created_packed_textures[k].packer[1].used
        /\ \E r \in 1..Len(packed_texture_indices) :
            packed_texture_indices[r].packed_index = k - 1
    /\ Len(currently_created_packed_textures) <= Len(packed_texture_indices)

\* ---------------------------------------------------------------- main's properties
\* Scenario B, at the end of the second run: the loaded state was one container
\* holding one Block X, this run (--append) packed one Block Y, and Y fits in the
\* space X left free in the container
PasteX == main_packed_textures[1].image.pastes[1]

BlockY == texture_blocks[1]

ScenarioB ==
    /\ pc = "idle"
    /\ runs = 2
    /\ args.append
    /\ args.mode \in {"dir", "file"}
    /\ Len(texture_blocks) = 1
    /\ Len(packed_texture_indices) = 1
    /\ Len(main_packed_texture_indices) = 2
    /\ Len(main_packed_textures) = 1 + Len(currently_created_packed_textures)
    /\ Len(main_packed_textures[1].image.pastes) >= 1
    /\ PasteX.x = main_packed_texture_indices[1].top_left_corner_x
    /\ PasteX.y = main_packed_texture_indices[1].top_left_corner_y
    /\ find_node(split_node(Packer(container_size, container_size), 1, PasteX.w, PasteX.h),
                 1, BlockY.w, BlockY.h) # None

\* C5: in Scenario B, Y is placed into the same container as X and, in the
\* accumulated Placement Index list, Y's rectangle does not overlap X's.
C5_AppendNoOverlap ==
    ScenarioB =>
        /\ Len(main_packed_textures) = 1
        /\ main_packed_texture_indices[2].packed_index =
               main_packed_texture_indices[1].packed_index
        /\ ~Intersect(Rect(main_packed_texture_indices[1].top_left_corner_x,
                           main_packed_texture_indices[1].top_left_corner_y,
                           PasteX.w, PasteX.h),
                      Rect(main_packed_texture_indices[2].top_left_corner_x,
                           main_packed_texture_indices[2].top_left_corner_y,
                           BlockY.w, BlockY.h))

\* C7: in an append run, a source identifier that is in the persisted skip-list at
\* the start of the run is not among the Blocks collected for packing, in
\* directory mode and in path-list mode alike. (At "collected" the skip-list file
\* still holds what it held at the start of the run.)
C7_SkipListSkips ==
    (pc = "collected" /\ args.append /\ paths_txt.exists) =>
        \A i \in 1..Len(texture_blocks) : texture_blocks[i].filename \notin paths_txt.lines

\* C8: the metadata entry keyed by a placed Block's identifier carries the record
\* created for that Block (container index, origin, translated nested regions) and
\* that Block's width and height, also when some Blocks were dropped.
C8_MetadataMatchesBlock ==
    (/\ pc = "idle"
     /\ args.mode \in {"dir", "file"}
     /\ Cardinality(Filenames(texture_blocks)) = Len(texture_blocks)) =>
        \A i \in PlacedBlocks :
            /\ texture_blocks[i].filename \in DOMAIN packed_texture_json.sub_textures
            /\ packed_texture_json.sub_textures[texture_blocks[i].filename] =
                   [container_index |-> RecordOf(i).packed_index,
                    x |-> RecordOf(i).top_left_corner_x,
                    y |-> RecordOf(i).top_left_corner_y,
                    width |-> texture_blocks[i].w,
                    height |-> texture_blocks[i].h,
                    sub_textures |-> RecordOf(i).packed_subtextures]

====
